---- MODULE Spec2Model ----
(***************************************************************************)
(* State-machine model of app.py, the Streamlit speaking/reading test.     *)
(*                                                                         *)
(* One script run of a session is a sequence of steps (pc): the module     *)
(* level code and main(), then speaking_test() and reading_test(), each of *)
(* which may submit a clip to transcribe_audio and evaluate_with_groq and  *)
(* append to st.session_state.history.  The providers, the local file      *)
(* system, the environment and the user are the nondeterministic inputs.   *)
(***************************************************************************)
EXTENDS Integers, Sequences, FiniteSets, TLC

\* ------------------------------------------------------------------------
\* Bounds of the model
\* ------------------------------------------------------------------------
\* Behaviours are followed while the histories of the connected sessions
\* have fewer than MaxHistory entries together: a further clip is not taken
\* up once they have that many.
MaxHistory == 2
\* Readings of the clock (time.time(), datetime.now()), in milliseconds, range
\* over 0..MaxClock.
MaxClock == 0

\* The browser sessions served by the one process.
Sessions == {"s1", "s2"}

\* ------------------------------------------------------------------------
\* Values
\* ------------------------------------------------------------------------
\* Python's None and the empty byte string.
NoneVal == "None"
EmptyBytes == "b''"
\* Recorded clips: audio_recorder returns None or a non-empty byte buffer.
Clips == {"clipA", "clipB"}
\* What recognize_google hears in each clip.
Speech == [clipA |-> "I love traveling to Japan", clipB |-> "the rapid advancement"]

\* Python truthiness of a recorder value (`if audio_bytes:`).
Truthy(v) == v \notin {NoneVal, EmptyBytes, ""}

\* No file at a path.
NoFile == "<no file>"
Timestamps == 0..MaxClock

\* ------------------------------------------------------------------------
\* Credential resolution (module level)
\* ------------------------------------------------------------------------
Unset == "<unset>"
NoModule == "<no config.py>"
NoAttr == "<config.py without GROQ_API_KEY>"
EnvValues == {Unset, "", "gsk_env"}
ConfigValues == {NoModule, NoAttr, "", "gsk_config"}
\* The literal default of os.environ.get on line 134.
HardcodedKey == "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"

\* os.environ.get(name, default)
os_environ_get(env, default) == IF env = Unset THEN default ELSE env

\* GROQ_API_KEY after lines 134-144.
GROQ_API_KEY(env, config) ==
    LET fromEnv == os_environ_get(env, HardcodedKey)
    IN  IF config \notin {NoModule, NoAttr} /\ Truthy(config)
        THEN config
        ELSE fromEnv

\* ------------------------------------------------------------------------
\* Reading text resource
\* ------------------------------------------------------------------------
DefaultText == "The rapid advancement of artificial intelligence ..."
ReadingFileStates == {"absent", "invalid_json", "with_default", "without_default"}

\* load_reading_texts(): the dict it returns, as the value of .get("default").
load_reading_texts(file) ==
    CASE file \in {"absent", "invalid_json"} -> [default |-> DefaultText]
      [] file = "with_default" -> [default |-> "A passage from reading_texts.json"]
      [] OTHER -> [other |-> "A passage under another key"]

\* dict.get(key) with the default None.
dict_get(d, k, default) == IF k \in DOMAIN d THEN d[k] ELSE default

\* ------------------------------------------------------------------------
\* Result dictionaries
\* ------------------------------------------------------------------------
Success(field, payload) == [success |-> TRUE] @@ (field :> payload)
Failure(err) == [success |-> FALSE, error |-> err]
\* An exception that left the function instead of a returned dict.
Raised(exc) == [raised |-> exc]
NoResult == [none |-> TRUE]

IsRaised(r) == "raised" \in DOMAIN r
IsResult(r) == "success" \in DOMAIN r

\* `except` clause matching: the handler names the classes it catches,
\* "Exception" catches every class of the model.
Catches(handler, exc) == exc \in handler \/ "Exception" \in handler

\* ------------------------------------------------------------------------
\* transcribe_audio: exception handlers
\* ------------------------------------------------------------------------
\* How one attempt to create ./temp, to write the file, and to remove it ends.
IOOutcomes == {"ok", "OSError"}
\* How sr.AudioFile / recognizer.record / recognize_google end on a file that
\* exists: recognized text, no intelligible speech, provider unreachable, or
\* a file that is not readable audio.
RecognitionOutcomes == {"ok", "UnknownValueError", "RequestError", "ValueError"}
\* Line 34 builds sr.Recognizer() and line 42 calls recognize_google without
\* setting a timeout: a provider that accepts the request and never answers
\* keeps the call waiting.
Stall == "stall"

\* The classes named by the three inner except clauses (lines 45, 47, 49)
\* and by the outer one (line 59).
TranscribeExceptUnknownValue == {"UnknownValueError"}
TranscribeExceptRequest == {"RequestError"}
TranscribeExceptInner == {"Exception"}
TranscribeExceptOuter == {"Exception"}

\* Lines 45-50: the result returned for an exception raised in the inner try,
\* or the exception itself when no clause matches.
transcribe_inner_except(exc) ==
    IF Catches(TranscribeExceptUnknownValue, exc)
    THEN Failure("Could not understand the audio")
    ELSE IF Catches(TranscribeExceptRequest, exc)
    THEN Failure("Could not request results")
    ELSE IF Catches(TranscribeExceptInner, exc)
    THEN Failure("Error processing audio")
    ELSE Raised(exc)

\* Lines 59-60: the outer handler.
transcribe_outer_except(exc) ==
    IF Catches(TranscribeExceptOuter, exc)
    THEN Failure("Setup error")
    ELSE Raised(exc)

\* Lines 37-43 on the content found at filepath: a missing file makes
\* sr.AudioFile raise FileNotFoundError, otherwise the provider decides.
recognize(content, outcome) ==
    IF content = NoFile THEN transcribe_inner_except("FileNotFoundError")
    ELSE IF outcome = "ok" THEN Success("text", Speech[content])
    ELSE transcribe_inner_except(outcome)

\* ------------------------------------------------------------------------
\* evaluate_with_groq
\* ------------------------------------------------------------------------
SpeakingKeys == {"score", "pronunciation", "grammar", "vocabulary", "fluency",
                 "coherence", "improvement_tips"}
ReadingKeys == {"score", "accuracy", "pronunciation", "fluency", "overall",
                "improvement_tips"}
NA == "N/A"
\* The fields the prompt of each evaluation type asks the report to have.
ReportKeys(evaluation_type) ==
    IF evaluation_type = "speaking" THEN SpeakingKeys ELSE ReadingKeys

JsonObject(m) == [json_type |-> "object", members |-> m]
JsonArray == [json_type |-> "array", members |-> [k \in {} |-> ""]]
ReplyObject(dom, score) ==
    JsonObject([k \in dom |-> IF k = "score" THEN score
                              ELSE IF k = "improvement_tips" THEN <<"slow down">>
                              ELSE "feedback on " \o k])
\* The JSON objects the judging provider may reply with.  Scores are JSON
\* literals, "11" is outside 1-10; one reply has no score, no "overall" and
\* no tips.
ReplyObjects ==
    {ReplyObject(SpeakingKeys, "8"),
     ReplyObject(ReadingKeys, "11"),
     ReplyObject(ReadingKeys \ {"score", "overall", "improvement_tips"}, NA)}
\* message.content of the reply: text that is not JSON, or JSON text standing
\* for an object or for an array.
NotJsonText == "not json"
Contents == {[text |-> NotJsonText]} \cup {[json |-> v] : v \in ReplyObjects \cup {JsonArray}}

\* Shapes of the HTTP body.
Bodies200 == {"empty", "not_json", "no_choices", "empty_choices", "no_message",
              "no_content", "null_content"}
BodiesError == {"empty", "not_json", "json"}
\* What requests.post does: raise a RequestException (connection error or
\* timeout), or answer with a status and a body.
Responses ==
    {[post |-> "RequestException"]}
    \cup {[post |-> "ok", status |-> 200, body |-> b] : b \in Bodies200}
    \cup {[post |-> "ok", status |-> 200, body |-> "envelope", content |-> c] : c \in Contents}
    \cup {[post |-> "ok", status |-> 429, body |-> b] : b \in BodiesError}

\* Lines 268-269: response.json()["choices"][0]["message"]["content"] and
\* json.loads of it; the value, or the class of the exception raised.
parse_reply(resp) ==
    CASE resp.body \in {"empty", "not_json"} -> [exc |-> "JSONDecodeError"]
      [] resp.body = "no_choices" -> [exc |-> "KeyError"]
      [] resp.body = "empty_choices" -> [exc |-> "IndexError"]
      [] resp.body \in {"no_message", "no_content"} -> [exc |-> "KeyError"]
      [] resp.body = "null_content" -> [exc |-> "TypeError"]
      [] OTHER -> IF "json" \in DOMAIN resp.content
                  THEN [val |-> resp.content.json]
                  ELSE [exc |-> "JSONDecodeError"]

\* The except clauses of lines 271, 281 and 283.
EvaluateExceptParse == {"JSONDecodeError", "KeyError"}
EvaluateExceptRequest == {"RequestException"}
\* As EvaluateExceptOuter, had line 283 named ValueError instead of Exception.
EvaluateExceptOuterNarrow == {"ValueError"}
EvaluateExceptOuter == {"Exception"}

\* As evaluate_response, had the 200 branch rejected a reply without "score".
evaluate_response_score_required(resp) ==
    IF resp.status = 200
    THEN LET r == parse_reply(resp)
         IN  IF "val" \in DOMAIN r
             THEN IF r.val.json_type = "object" /\ "score" \notin DOMAIN r.val.members
                  THEN Failure("Error parsing API response")
                  ELSE Success("evaluation", r.val)
             ELSE IF Catches(EvaluateExceptParse, r.exc)
             THEN Failure("Error parsing API response")
             ELSE Raised(r.exc)
    ELSE IF resp.body = "not_json"
         THEN Failure("HTTP error")
         ELSE Failure("Error from Groq API")

\* Lines 266-279: the branch on the status code; a returned dict, or an
\* exception for the outer handlers.
evaluate_response(resp) ==
    IF resp.status = 200
    THEN LET r == parse_reply(resp)
         IN  IF "val" \in DOMAIN r THEN Success("evaluation", r.val)
             ELSE IF Catches(EvaluateExceptParse, r.exc)
             THEN Failure("Error parsing API response")
             ELSE Raised(r.exc)
    ELSE IF resp.body = "not_json"
         THEN Failure("HTTP error")
         ELSE Failure("Error from Groq API")

\* Lines 182-284.
evaluate_with_groq(key, text, evaluation_type, reference_text, resp) ==
    IF ~Truthy(key) THEN Failure("Groq API key is not configured")
    ELSE IF evaluation_type \notin {"speaking", "reading"}
    THEN Failure("Unknown evaluation type")
    ELSE LET r == IF resp.post = "ok" THEN evaluate_response(resp)
                  ELSE Raised(resp.post)
         IN  IF ~IsRaised(r) THEN r
             ELSE IF Catches(EvaluateExceptRequest, r.raised)
             THEN Failure("Network error")
             ELSE IF Catches(EvaluateExceptOuter, r.raised)
             THEN Failure("Error processing request")
             ELSE r

\* Whether evaluate_with_groq reaches requests.post with these arguments.
posts_request(key, evaluation_type) ==
    Truthy(key) /\ evaluation_type \in {"speaking", "reading"}

\* ------------------------------------------------------------------------
\* check_api_connection and the history entry
\* ------------------------------------------------------------------------
\* How the GET of lines 514-518 ends.
ConnectionOutcomes == {"status_200", "status_401", "RequestException"}

\* Lines 506-521: the first component of the returned pair.
check_api_connection(key, outcome) ==
    IF ~Truthy(key) THEN FALSE
    ELSE outcome = "status_200"

\* The label each test stores in the entry's "type".
TestLabel(evaluation_type) ==
    IF evaluation_type = "speaking" THEN "Speaking Test" ELSE "Reading Test"

\* As entry_score, had the score been clamped to 1-10.
entry_score_clamped(evaluation) ==
    LET sc == dict_get(evaluation.members, "score", NA)
    IN  IF sc = "11" THEN "10" ELSE IF sc = "0" THEN "1" ELSE sc

\* The score stored in the entry: evaluation.get("score", "N/A").
entry_score(evaluation) == dict_get(evaluation.members, "score", NA)

\* The clock counts milliseconds (line 24: int(time.time() * 1000)).
MillisPerMinute == 60 * 1000

\* Lines 405 / 479: strftime("%Y-%m-%d %H:%M") keeps the time to the minute.
strftime(now) == now \div MillisPerMinute

\* Lines 403-409 / 477-483: the dict appended to the history.
history_entry(evaluation_type, now, transcription, evaluation) ==
    [type |-> TestLabel(evaluation_type),
     date |-> strftime(now),
     transcript |-> transcription,
     score |-> entry_score(evaluation),
     evaluation |-> evaluation]

EmptyObject == JsonObject([k \in {} |-> ""])

\* The feedback items of the two layouts of display_evaluation_results.
SpeakingDimensions == {"pronunciation", "grammar", "vocabulary", "fluency",
                       "coherence"}
ReadingDimensions == {"accuracy", "pronunciation", "fluency", "overall"}

\* As display_evaluation_results, had a missing field been rendered as an
\* empty paragraph.
display_evaluation_results_blank(eval_data) ==
    LET m == eval_data.members
        dims == IF "grammar" \in DOMAIN m THEN SpeakingDimensions
                ELSE ReadingDimensions
    IN  [score |-> dict_get(m, "score", ""),
         feedback |-> [k \in dims |-> dict_get(m, k, "")],
         tips |-> dict_get(m, "improvement_tips", <<>>)]

\* Lines 292-368: what is rendered of a report: the score, the feedback
\* items of the layout chosen by `"grammar" in eval_data`, and the tips.
display_evaluation_results(eval_data) ==
    LET m == eval_data.members
        dims == IF "grammar" \in DOMAIN m THEN SpeakingDimensions
                ELSE ReadingDimensions
    IN  [score |-> dict_get(m, "score", NA),
         feedback |-> [k \in dims |-> dict_get(m, k, NA)],
         tips |-> dict_get(m, "improvement_tips", <<>>)]

\* As save_to_history, had the append been outside the `if`.
save_to_history_always(h, evaluation_type, now, transcription, evaluation_results) ==
    Append(h, history_entry(evaluation_type, now, transcription,
                            dict_get(evaluation_results, "evaluation", EmptyObject)))

\* As save_to_history, had the entry been inserted at the head of the list.
save_to_history_first(h, evaluation_type, now, transcription, evaluation_results) ==
    IF evaluation_results.success
    THEN <<history_entry(evaluation_type, now, transcription,
                         evaluation_results.evaluation)>> \o h
    ELSE h

\* As save_to_history, had the list been reassigned to the new entry alone.
save_to_history_only(h, evaluation_type, now, transcription, evaluation_results) ==
    IF evaluation_results.success
    THEN <<history_entry(evaluation_type, now, transcription,
                         evaluation_results.evaluation)>>
    ELSE h

\* As save_to_history, had the entry been put aside to be appended when the
\* script run is over.
save_to_history_deferred(h, evaluation_type, now, transcription, evaluation_results) ==
    h

\* Lines 402-409 / 476-483: the history after the "Save to history" block.
save_to_history(h, evaluation_type, now, transcription, evaluation_results) ==
    IF evaluation_results.success
    THEN Append(h, history_entry(evaluation_type, now, transcription,
                                 evaluation_results.evaluation))
    ELSE h

\* As finally_remove, had the removal been done only when the test
\* os.path.exists(filepath) is false.
finally_remove_inverted(fs, path, outcome) == fs

\* Lines 53-57: the files after the finally block ran on filepath, where
\* outcome is how os.remove ends if it is called.
finally_remove(fs, path, outcome) ==
    IF fs[path] # NoFile /\ outcome = "ok"
    THEN [fs EXCEPT ![path] = NoFile]
    ELSE fs

\* ------------------------------------------------------------------------
\* State
\* ------------------------------------------------------------------------
VARIABLES
    envKey,         \* GROQ_API_KEY of the process environment
    configKey,      \* config.py and its GROQ_API_KEY
    tempDir,        \* whether ./temp exists
    files,          \* ./temp/recording_<timestamp>.wav: content per timestamp
    clock,          \* the current time
    live,           \* the sessions that are connected
    faults,         \* whether the providers and the file system may fail
    voices,         \* the clips the user of each session may record
    history,        \* st.session_state.history of each session
    recorder,       \* value of each session's two audio_recorder widgets
    pc,             \* position of each session's script run
    stage,          \* the test a run is in: "speaking" or "reading"
    stopped,        \* why the last run ended in st.stop(), "" if it did not
    audio,          \* audio_bytes / reading_audio of the running test
    reference_text, \* reading_text of the run
    filepath,       \* timestamp of the transient file of the transcription
    tres,           \* transcription_result (pending until the finally ran)
    cleanup,        \* what the finally block of the transcription did
    eres,           \* evaluation_results
    shown,          \* what the test rendered for the submission
    sub,            \* record of the submission of the session's latest run
    completed       \* the submissions of the session that showed their results

vars == <<envKey, configKey, tempDir, files, clock, live, faults, voices,
          history, recorder, pc,
          stage, stopped, audio, reference_text, filepath, tres, cleanup, eres,
          shown, sub, completed>>

env_vars == <<envKey, configKey, live, faults, voices>>

\* earlier: how the submission before it in the same run ended, "Idle" if
\* there was none.
NoSubmission ==
    [mode |-> "none", clip |-> NoneVal, state |-> "Idle", error |-> "",
     transcribes |-> 0, recognitions |-> 0, evaluations |-> 0, posts |-> 0,
     before |-> <<>>, transcription |-> NoResult, reply |-> NoResult,
     earlier |-> "Idle"]

NothingShown == [kind |-> "nothing"]

Key == GROQ_API_KEY(envKey, configKey)

\* What the file system, the providers and reading_texts.json may do in
\* the deployment: anything, or, in a deployment without faults, what they
\* are meant to do (the judging provider then replies with the report the
\* prompt asked for).
IONow == IF faults THEN IOOutcomes ELSE {"ok"}
RecognitionNow == IF faults THEN RecognitionOutcomes \cup {Stall} ELSE {"ok"}
ConnectionNow == IF faults THEN ConnectionOutcomes ELSE {"status_200"}
ReadingFileNow == IF faults THEN ReadingFileStates ELSE {"absent"}
ResponsesNow(evaluation_type) ==
    IF faults THEN Responses
    ELSE {r \in Responses :
            /\ r.post = "ok"
            /\ r.status = 200
            /\ r.body = "envelope"
            /\ "json" \in DOMAIN r.content
            /\ r.content.json.json_type = "object"
            /\ DOMAIN r.content.json.members = ReportKeys(evaluation_type)}

InitSession ==
    /\ history = [s \in Sessions |-> <<>>]
    /\ recorder = [s \in Sessions |->
                     [speaking_recorder |-> NoneVal, reading_recorder |-> NoneVal]]
    /\ pc = [s \in Sessions |-> "new"]
    /\ stage = [s \in Sessions |-> "speaking"]
    /\ stopped = [s \in Sessions |-> ""]
    /\ audio = [s \in Sessions |-> NoneVal]
    /\ reference_text = [s \in Sessions |-> NoneVal]
    /\ filepath = [s \in Sessions |-> 0]
    /\ tres = [s \in Sessions |-> NoResult]
    /\ cleanup = [s \in Sessions |-> "none"]
    /\ eres = [s \in Sessions |-> NoResult]
    /\ shown = [s \in Sessions |-> NothingShown]
    /\ sub = [s \in Sessions |-> NoSubmission]
    /\ completed = [s \in Sessions |-> <<>>]

InitProcess ==
    /\ tempDir = FALSE
    /\ files = [t \in Timestamps |-> NoFile]
    /\ clock = 0

\* One browser session of a deployment whose key is set in the environment
\* (.env or export) and that has no config.py.
Init ==
    /\ envKey = "gsk_env"
    /\ configKey = NoModule
    /\ InitProcess
    /\ InitSession
    /\ live = {"s1"}
    /\ faults = TRUE
    /\ voices = [s \in Sessions |-> Clips]

\* One browser session of a deployment with any environment and config.py.
InitStartup ==
    /\ envKey \in EnvValues
    /\ configKey \in ConfigValues
    /\ InitProcess
    /\ InitSession
    /\ live = {"s1"}
    /\ faults = TRUE
    /\ voices = [s \in Sessions |-> Clips]

\* ------------------------------------------------------------------------
\* The user and the clock
\* ------------------------------------------------------------------------
RecorderKeys == {"speaking_recorder", "reading_recorder"}
\* The key of the recorder of each test.
RecorderOf(mode) ==
    IF mode = "speaking" THEN "speaking_recorder" ELSE "reading_recorder"

\* A reading of the clock: time has not gone back since the last reading.
Readings == clock..MaxClock

\* ------------------------------------------------------------------------
\* The script run: module level and main()
\* ------------------------------------------------------------------------
\* Lines 126-180 and 523-579: session state is initialised if missing, the
\* key is resolved, the sidebar reads the history, and main() stops the run
\* when there is no key or when the connection test fails; otherwise the
\* run goes on to the tests.  A run renders the page anew.
main(s) ==
    /\ \E outcome \in ConnectionNow :
         IF ~Truthy(Key)
         THEN /\ stopped' = [stopped EXCEPT ![s] = "API key not configured"]
              /\ pc' = [pc EXCEPT ![s] = "idle"]
         ELSE IF ~check_api_connection(Key, outcome)
         THEN /\ stopped' = [stopped EXCEPT ![s] = "API connection failed"]
              /\ pc' = [pc EXCEPT ![s] = "idle"]
         ELSE /\ stopped' = [stopped EXCEPT ![s] = ""]
              /\ pc' = [pc EXCEPT ![s] = "test"]
    /\ shown' = [shown EXCEPT ![s] = NothingShown]
    /\ sub' = [sub EXCEPT ![s] = NoSubmission]
    /\ UNCHANGED <<env_vars, tempDir, files, clock, history, stage, audio,
                   reference_text, filepath, tres, cleanup, eres, completed>>

\* The first script run of a session, when the page is opened.
Load(s) ==
    /\ s \in live
    /\ pc[s] = "new"
    /\ main(s)
    /\ UNCHANGED recorder

\* The user finishes a recording in one of the two recorders: the widget
\* has a new value, other bytes than those it held, keeps it from then on,
\* and the script is re-run.
Record(s, key, clip) ==
    /\ s \in live
    /\ pc[s] = "idle"
    /\ clip \in voices[s]
    /\ clip # recorder[s][key]
    /\ recorder' = [recorder EXCEPT ![s][key] = clip]
    /\ main(s)

\* ------------------------------------------------------------------------
\* speaking_test / reading_test
\* ------------------------------------------------------------------------
\* As NextPc, had the run ended after the speaking test.
NextPcStop(s) == "idle"

\* Where a run continues when a test is over: the reading test follows the
\* speaking test, the run ends after the reading test.
NextPc(s) == IF stage[s] = "speaking" THEN "test" ELSE "idle"
NextStage(s) == IF stage[s] = "speaking" THEN "reading" ELSE "speaking"

\* The locals of a test are gone when the test function returns.
Return(s) ==
    /\ audio' = [audio EXCEPT ![s] = NoneVal]
    /\ filepath' = [filepath EXCEPT ![s] = 0]
    /\ tres' = [tres EXCEPT ![s] = NoResult]
    /\ eres' = [eres EXCEPT ![s] = NoResult]
    /\ cleanup' = [cleanup EXCEPT ![s] = "none"]
    /\ reference_text' = [reference_text EXCEPT ![s] = NoneVal]

\* The entries saved by the sessions of S together.
RECURSIVE Saved(_)
Saved(S) ==
    IF S = {} THEN 0
    ELSE LET s == CHOOSE x \in S : TRUE
         IN  Len(history[s]) + Saved(S \ {s})

NewSubmission(s, clip) ==
    [mode |-> stage[s], clip |-> clip, state |-> "Transcribing", error |-> "",
     transcribes |-> 1, recognitions |-> 0, evaluations |-> 0, posts |-> 0,
     before |-> history[s], transcription |-> NoResult, reply |-> NoResult,
     earlier |-> sub[s].state]

\* As Submit, had transcribe_audio been called without the test
\* `if audio_bytes:`.
SubmitUnguarded(s, clip, reference) ==
    /\ Saved(live) < MaxHistory
    /\ audio' = [audio EXCEPT ![s] = clip]
    /\ reference_text' = [reference_text EXCEPT ![s] = reference]
    /\ pc' = [pc EXCEPT ![s] = "t_setup"]
    /\ sub' = [sub EXCEPT ![s] = NewSubmission(s, clip)]
    /\ shown' = [shown EXCEPT ![s] = NothingShown]
    /\ UNCHANGED <<stage, filepath, tres, cleanup, eres>>

\* Lines 389-393 / 459-463: `if audio_bytes:` enters transcribe_audio,
\* otherwise the test renders nothing more.
Submit(s, clip, reference) ==
    IF Truthy(clip)
    THEN /\ Saved(live) < MaxHistory
         /\ audio' = [audio EXCEPT ![s] = clip]
         /\ reference_text' = [reference_text EXCEPT ![s] = reference]
         /\ pc' = [pc EXCEPT ![s] = "t_setup"]
         /\ sub' = [sub EXCEPT ![s] = NewSubmission(s, clip)]
         /\ shown' = [shown EXCEPT ![s] = NothingShown]
         /\ UNCHANGED <<stage, filepath, tres, cleanup, eres>>
    ELSE /\ pc' = [pc EXCEPT ![s] = NextPc(s)]
         /\ stage' = [stage EXCEPT ![s] = NextStage(s)]
         /\ Return(s)
         /\ UNCHANGED <<sub, shown>>

\* Lines 370-393.
speaking_test(s) ==
    /\ s \in live
    /\ pc[s] = "test"
    /\ stage[s] = "speaking"
    /\ Submit(s, recorder[s].speaking_recorder, NoneVal)
    /\ UNCHANGED <<env_vars, tempDir, files, clock, history, recorder, stopped,
                   completed>>

\* Lines 432-463.
reading_test(s) ==
    /\ s \in live
    /\ pc[s] = "test"
    /\ stage[s] = "reading"
    /\ \E file \in ReadingFileNow :
         Submit(s, recorder[s].reading_recorder,
                dict_get(load_reading_texts(file), "default", NoneVal))
    /\ UNCHANGED <<env_vars, tempDir, files, clock, history, recorder, stopped,
                   completed>>

\* ------------------------------------------------------------------------
\* transcribe_audio, step by step
\* ------------------------------------------------------------------------
\* Lines 19-26: create ./temp if missing, derive the file name from the time.
T_Setup(s) ==
    /\ s \in live
    /\ pc[s] = "t_setup"
    /\ \E outcome \in IONow :
         IF ~tempDir /\ outcome = "OSError"
         THEN /\ tres' = [tres EXCEPT ![s] = transcribe_outer_except(outcome)]
              /\ sub' = [sub EXCEPT ![s].transcription =
                           transcribe_outer_except(outcome)]
              /\ pc' = [pc EXCEPT ![s] = "transcribed"]
              /\ UNCHANGED <<tempDir, filepath, clock>>
         ELSE /\ tempDir' = TRUE
              /\ \E timestamp \in Readings :
                   /\ clock' = timestamp
                   /\ filepath' = [filepath EXCEPT ![s] = timestamp]
              /\ pc' = [pc EXCEPT ![s] = "t_write"]
              /\ UNCHANGED <<tres, sub>>
    /\ UNCHANGED <<env_vars, files, history, recorder, stage, stopped,
                   audio, reference_text, cleanup, eres, shown, completed>>

\* Lines 30-31: write the clip to the file.
T_Write(s) ==
    /\ s \in live
    /\ pc[s] = "t_write"
    /\ \E outcome \in IONow :
         IF outcome = "ok"
         THEN /\ files' = [files EXCEPT ![filepath[s]] = audio[s]]
              /\ pc' = [pc EXCEPT ![s] = "t_recognize"]
              /\ UNCHANGED tres
         ELSE /\ tres' = [tres EXCEPT ![s] = transcribe_inner_except(outcome)]
              /\ pc' = [pc EXCEPT ![s] = "t_cleanup"]
              /\ UNCHANGED files
    /\ UNCHANGED <<env_vars, tempDir, clock, history, recorder, stage, stopped,
                   audio, reference_text, filepath, cleanup, eres, shown, sub,
                   completed>>

\* As T_Recognize, had a RequestError been answered by one more call of
\* recognize_google.
T_RecognizeRetry(s) ==
    /\ s \in live
    /\ pc[s] = "t_recognize"
    /\ \E outcome \in RecognitionNow :
         /\ sub' = [sub EXCEPT ![s].recognitions =
                      IF files[filepath[s]] # NoFile /\ outcome # "ValueError"
                      THEN @ + 1 ELSE @]
         /\ IF files[filepath[s]] # NoFile /\ outcome = Stall
            THEN /\ pc' = [pc EXCEPT ![s] = "blocked"]
                 /\ UNCHANGED tres
            ELSE IF /\ files[filepath[s]] # NoFile
                    /\ outcome = "RequestError"
                    /\ sub[s].recognitions = 0
            THEN UNCHANGED <<pc, tres>>
            ELSE /\ tres' = [tres EXCEPT ![s] =
                               recognize(files[filepath[s]], outcome)]
                 /\ pc' = [pc EXCEPT ![s] = "t_cleanup"]
    /\ UNCHANGED <<env_vars, tempDir, files, clock, history, recorder, stage,
                   stopped, audio, reference_text, filepath, cleanup, eres,
                   shown, completed>>

\* Lines 34-50: read the file back and ask the recognition provider.
T_Recognize(s) ==
    /\ s \in live
    /\ pc[s] = "t_recognize"
    /\ \E outcome \in RecognitionNow :
         /\ sub' = [sub EXCEPT ![s].recognitions =
                      IF files[filepath[s]] # NoFile /\ outcome # "ValueError"
                      THEN @ + 1 ELSE @]
         /\ IF files[filepath[s]] # NoFile /\ outcome = Stall
            THEN /\ pc' = [pc EXCEPT ![s] = "blocked"]
                 /\ UNCHANGED tres
            ELSE /\ tres' = [tres EXCEPT ![s] =
                               recognize(files[filepath[s]], outcome)]
                 /\ pc' = [pc EXCEPT ![s] = "t_cleanup"]
    /\ UNCHANGED <<env_vars, tempDir, files, clock, history, recorder, stage,
                   stopped, audio, reference_text, filepath, cleanup, eres,
                   shown, completed>>

\* Lines 51-60: the finally block removes the file if it exists and swallows
\* a failure of the removal; an exception no inner clause caught reaches the
\* outer handler; then the function returns.
T_Cleanup(s) ==
    /\ s \in live
    /\ pc[s] = "t_cleanup"
    /\ \E outcome \in IONow :
         /\ files' = finally_remove(files, filepath[s], outcome)
         /\ cleanup' = [cleanup EXCEPT ![s] =
                          IF files[filepath[s]] = NoFile THEN "absent"
                          ELSE IF outcome = "ok" THEN "removed"
                          ELSE "failed"]
    /\ LET returned == IF IsRaised(tres[s])
                       THEN transcribe_outer_except(tres[s].raised)
                       ELSE tres[s]
       IN  /\ tres' = [tres EXCEPT ![s] = returned]
           /\ sub' = [sub EXCEPT ![s].transcription = returned]
    /\ pc' = [pc EXCEPT ![s] = "transcribed"]
    /\ UNCHANGED <<env_vars, tempDir, clock, history, recorder, stage, stopped,
                   audio, reference_text, filepath, eres, shown, completed>>

\* ------------------------------------------------------------------------
\* The rest of the test: evaluate, save, display
\* ------------------------------------------------------------------------
\* An exception nothing catches ends the script run.
Crash(s) ==
    /\ pc' = [pc EXCEPT ![s] = "idle"]
    /\ stage' = [stage EXCEPT ![s] = "speaking"]
    /\ sub' = [sub EXCEPT ![s].state = "Crashed"]
    /\ Return(s)

\* Lines 415-416 / 489-490: the transcription failed, the error is shown.
TranscriptionFailed(s) ==
    /\ s \in live
    /\ pc[s] = "transcribed"
    /\ IsResult(tres[s])
    /\ ~tres[s].success
    /\ shown' = [shown EXCEPT ![s] =
                   [kind |-> "Transcription failed", error |-> tres[s].error]]
    /\ sub' = [sub EXCEPT ![s].state = "Failed", ![s].error = tres[s].error]
    /\ pc' = [pc EXCEPT ![s] = NextPc(s)]
    /\ stage' = [stage EXCEPT ![s] = NextStage(s)]
    /\ Return(s)
    /\ UNCHANGED <<env_vars, tempDir, files, clock, history, recorder, stopped,
                   completed>>

\* As Evaluate, had evaluate_with_groq been called without the test of
\* transcription_result["success"], on transcription_result.get("text", "").
EvaluateUnguarded(s) ==
    /\ s \in live
    /\ pc[s] = "transcribed"
    /\ IF IsRaised(tres[s])
       THEN Crash(s)
       ELSE /\ \E resp \in ResponsesNow(stage[s]) :
                 /\ eres' = [eres EXCEPT ![s] =
                               evaluate_with_groq(Key, dict_get(tres[s], "text", ""),
                                   stage[s],
                                   IF stage[s] = "reading" THEN reference_text[s]
                                   ELSE NoneVal, resp)]
                 /\ sub' = [sub EXCEPT ![s].state = "Evaluating",
                                       ![s].evaluations = @ + 1,
                                       ![s].posts = IF posts_request(Key, stage[s])
                                                    THEN @ + 1 ELSE @,
                                       ![s].reply = resp]
            /\ pc' = [pc EXCEPT ![s] = "evaluated"]
            /\ UNCHANGED <<stage, audio, reference_text, filepath, tres, cleanup>>
    /\ UNCHANGED <<env_vars, tempDir, files, clock, history, recorder, stopped,
                   shown, completed>>

\* Lines 395-399 / 465-473: the transcription succeeded, evaluate_with_groq
\* is called with the text (and the reading text in the reading test).
Evaluate(s) ==
    /\ s \in live
    /\ pc[s] = "transcribed"
    /\ IF IsRaised(tres[s])
       THEN Crash(s)
       ELSE /\ tres[s].success
            /\ \E resp \in ResponsesNow(stage[s]) :
                 /\ eres' = [eres EXCEPT ![s] =
                               evaluate_with_groq(Key, tres[s].text, stage[s],
                                   IF stage[s] = "reading" THEN reference_text[s]
                                   ELSE NoneVal, resp)]
                 /\ sub' = [sub EXCEPT ![s].state = "Evaluating",
                                       ![s].evaluations = @ + 1,
                                       ![s].posts = IF posts_request(Key, stage[s])
                                                    THEN @ + 1 ELSE @,
                                       ![s].reply = resp]
            /\ pc' = [pc EXCEPT ![s] = "evaluated"]
            /\ UNCHANGED <<stage, audio, reference_text, filepath, tres, cleanup>>
    /\ UNCHANGED <<env_vars, tempDir, files, clock, history, recorder, stopped,
                   shown, completed>>

\* As Save, had the history been one list of the process, the same for
\* every session, instead of a key of st.session_state.
SaveShared(s) ==
    /\ s \in live
    /\ pc[s] = "evaluated"
    /\ IF IsRaised(eres[s])
       THEN Crash(s) /\ UNCHANGED <<history, clock>>
       ELSE IF eres[s].success /\ eres[s].evaluation.json_type # "object"
       THEN Crash(s) /\ UNCHANGED <<history, clock>>
       ELSE /\ \E now \in IF eres[s].success THEN Readings ELSE {clock} :
                 /\ clock' = now
                 /\ history' = [t \in Sessions |->
                                  save_to_history(history[t], stage[s], now,
                                                  tres[s].text, eres[s])]
            /\ pc' = [pc EXCEPT ![s] = "saved"]
            /\ UNCHANGED <<stage, sub, audio, reference_text, filepath, tres,
                           cleanup, eres>>
    /\ UNCHANGED <<env_vars, tempDir, files, recorder, stopped, shown,
                   completed>>

\* Lines 401-409 / 475-483: on success the entry is appended; reading
\* .get("score") from a value that is not a dict raises AttributeError.
Save(s) ==
    /\ s \in live
    /\ pc[s] = "evaluated"
    /\ IF IsRaised(eres[s])
       THEN Crash(s) /\ UNCHANGED <<history, clock>>
       ELSE IF eres[s].success /\ eres[s].evaluation.json_type # "object"
       THEN Crash(s) /\ UNCHANGED <<history, clock>>
       ELSE /\ \E now \in IF eres[s].success THEN Readings ELSE {clock} :
                 /\ clock' = now
                 /\ history' = [history EXCEPT ![s] =
                                  save_to_history(@, stage[s], now, tres[s].text,
                                                  eres[s])]
            /\ pc' = [pc EXCEPT ![s] = "saved"]
            /\ UNCHANGED <<stage, sub, audio, reference_text, filepath, tres,
                           cleanup, eres>>
    /\ UNCHANGED <<env_vars, tempDir, files, recorder, stopped, shown,
                   completed>>

\* Lines 411-414 / 485-488 and display_evaluation_results: the error, or the
\* transcript and the report, is rendered.
Display(s) ==
    /\ s \in live
    /\ pc[s] = "saved"
    /\ IF eres[s].success
       THEN /\ shown' = [shown EXCEPT ![s] =
                           [kind |-> "results", transcript |-> tres[s].text,
                            evaluation |-> eres[s].evaluation,
                            rendered |->
                              display_evaluation_results(eres[s].evaluation)]]
            /\ sub' = [sub EXCEPT ![s].state = "Completed"]
            /\ completed' = [completed EXCEPT ![s] =
                               Append(@, [mode |-> stage[s],
                                          transcript |-> tres[s].text,
                                          evaluation |-> eres[s].evaluation])]
       ELSE /\ shown' = [shown EXCEPT ![s] =
                           [kind |-> "Evaluation failed", error |-> eres[s].error]]
            /\ sub' = [sub EXCEPT ![s].state = "Failed",
                                  ![s].error = eres[s].error]
            /\ UNCHANGED completed
    /\ pc' = [pc EXCEPT ![s] = NextPc(s)]
    /\ stage' = [stage EXCEPT ![s] = NextStage(s)]
    /\ Return(s)
    /\ UNCHANGED <<env_vars, tempDir, files, clock, history, recorder, stopped>>

\* ------------------------------------------------------------------------
\* Specification
\* ------------------------------------------------------------------------
Next ==
    \E s \in Sessions :
         \/ Load(s)
         \/ \E key \in RecorderKeys, clip \in Clips :
              Record(s, key, clip)
         \/ speaking_test(s)
         \/ reading_test(s)
         \/ T_Setup(s)
         \/ T_Write(s)
         \/ T_Recognize(s)
         \/ T_Cleanup(s)
         \/ TranscriptionFailed(s)
         \/ Evaluate(s)
         \/ Save(s)
         \/ Display(s)

Spec == Init /\ [][Next]_vars

\* The steps of a script run, as against those of the user: the thread that
\* runs the script goes on executing it.
Run(s) ==
    \/ speaking_test(s)
    \/ reading_test(s)
    \/ T_Setup(s)
    \/ T_Write(s)
    \/ T_Recognize(s)
    \/ T_Cleanup(s)
    \/ TranscriptionFailed(s)
    \/ Evaluate(s)
    \/ Save(s)
    \/ Display(s)

SpecLive == Init /\ [][Next]_vars /\ \A s \in Sessions : WF_vars(Run(s))

\* Two browser sessions of a deployment without faults, each user with one
\* clip of their own: a session records at most once in each recorder.
InitSessions ==
    /\ envKey = "gsk_env"
    /\ configKey = NoModule
    /\ InitProcess
    /\ InitSession
    /\ live = Sessions
    /\ faults = FALSE
    /\ voices = [s \in Sessions |-> IF s = "s1" THEN {"clipA"} ELSE {"clipB"}]

SpecSessions == InitSessions /\ [][Next]_vars

SpecStartup == InitStartup /\ [][Next]_vars

\* ------------------------------------------------------------------------
\* Properties
\* ------------------------------------------------------------------------
IsPrefix(a, b) == Len(a) <= Len(b) /\ SubSeq(b, 1, Len(a)) = a
Last(h) == h[Len(h)]

\* The positions at which transcribe_audio has returned and its locals and
\* result are still in scope; those at which evaluate_with_groq has returned.
AfterTranscribe == {"transcribed", "evaluated", "saved"}
AfterEvaluate == {"evaluated", "saved"}

\* The provider answered 200 with the expected envelope and a JSON object.
IsObjectReply(resp) ==
    /\ "post" \in DOMAIN resp
    /\ resp.post = "ok"
    /\ resp.status = 200
    /\ resp.body = "envelope"
    /\ "json" \in DOMAIN resp.content
    /\ resp.content.json.json_type = "object"
ReplyObjectOf(resp) == resp.content.json
HasScore(resp) == "score" \in DOMAIN ReplyObjectOf(resp).members
NoScoreReply(resp) == IsObjectReply(resp) /\ ~HasScore(resp)

\* The provider answered 200 with a body that is not JSON, an envelope
\* without choices, without an element 0, without message or without content,
\* or a content that is not JSON.
MalformedReply(resp) ==
    /\ "post" \in DOMAIN resp
    /\ resp.post = "ok"
    /\ resp.status = 200
    /\ \/ resp.body \in {"empty", "not_json", "no_choices", "empty_choices",
                         "no_message", "no_content"}
       \/ resp.body = "envelope" /\ "text" \in DOMAIN resp.content

\* C1: when transcribe_audio returned a failure, evaluate_with_groq is not
\* invoked for the submission (no call, no request), the submission goes from
\* Transcribing to Failed, and Failed carries and shows the transcription
\* error; whenever evaluate_with_groq was invoked, the transcription had
\* succeeded.
C1_TranscriptionFailureSkipsEvaluation ==
    \A s \in Sessions :
      LET r == sub[s].transcription
      IN  /\ sub[s].evaluations > 0 => IsResult(r) /\ r.success
          /\ (IsResult(r) /\ ~r.success) =>
               /\ sub[s].evaluations = 0
               /\ sub[s].posts = 0
               /\ sub[s].state \in {"Transcribing", "Failed"}
               /\ sub[s].state = "Transcribing" => pc[s] = "transcribed"
               /\ sub[s].state = "Failed" =>
                    /\ sub[s].error = r.error
                    /\ shown[s] = [kind |-> "Transcription failed",
                                   error |-> r.error]

C1_Witness ==
    \E s \in Sessions :
      /\ sub[s].state = "Failed"
      /\ sub[s].mode = "reading"
      /\ sub[s].transcription = Failure("Could not understand the audio")

\* C2: a submission that ended in Failed, by a transcription failure or by
\* an evaluation failure, left the history as it was when the submission
\* began; nor is anything appended between the failed evaluation and the
\* display of its error.
C2_FailedLeavesHistory ==
    \A s \in Sessions :
      /\ sub[s].state = "Failed" => history[s] = sub[s].before
      /\ (pc[s] = "saved" /\ ~eres[s].success) => history[s] = sub[s].before

C2_Witness ==
    \E s \in Sessions :
      /\ sub[s].state = "Failed"
      /\ sub[s].evaluations = 1
      /\ sub[s].error = "Error from Groq API"
      /\ Len(sub[s].before) = 1

\* C3: once a submission has its entry saved and when it is Completed (its
\* results shown), the history is the history from before the submission plus
\* exactly one entry, whose transcript is the text transcribe_audio returned
\* and whose score is the score of the provider's reply, unchanged.
C3_CompletedAppendsOneEntry ==
    \A s \in Sessions :
      (sub[s].state = "Completed" \/ (pc[s] = "saved" /\ eres[s].success)) =>
        /\ Len(history[s]) = Len(sub[s].before) + 1
        /\ IsPrefix(sub[s].before, history[s])
        /\ Last(history[s]).transcript = sub[s].transcription.text
        /\ IsObjectReply(sub[s].reply)
        /\ HasScore(sub[s].reply) =>
             Last(history[s]).score = ReplyObjectOf(sub[s].reply).members.score

C3_Witness ==
    \E s \in Sessions :
      /\ sub[s].state = "Completed"
      /\ shown[s].kind = "results"
      /\ Last(history[s]).score = "11"
      /\ Last(history[s]).transcript = Speech[sub[s].clip]

\* C4: outside the moment between the append and the display, the history
\* has one entry per submission that completed, in the order they completed,
\* each with the type, transcript, score and report of that submission.
C4_HistoryIsCompletedSubmissions ==
    \A s \in Sessions :
      LET done == IF pc[s] = "saved" /\ eres[s].success
                  THEN Append(completed[s],
                              [mode |-> stage[s], transcript |-> tres[s].text,
                               evaluation |-> eres[s].evaluation])
                  ELSE completed[s]
      IN  /\ Len(history[s]) = Len(done)
          /\ \A i \in 1..Len(done) :
               /\ history[s][i].type = TestLabel(done[i].mode)
               /\ history[s][i].transcript = done[i].transcript
               /\ history[s][i].evaluation = done[i].evaluation
               /\ history[s][i].score =
                    dict_get(done[i].evaluation.members, "score", NA)

C4_Witness ==
    \E s \in Sessions :
      /\ pc[s] = "idle"
      /\ Len(completed[s]) = 2
      /\ completed[s][1].mode = "speaking"
      /\ completed[s][2].mode = "reading"
      /\ completed[s][1].transcript # completed[s][2].transcript

\* C5: every step of every session (a run with its sidebar reading the
\* history, a successful or failed submission) leaves the old history a
\* prefix of the new one.
C5_HistoryAppendOnly ==
    [][\A s \in Sessions : IsPrefix(history[s], history'[s])]_vars

C5_Witness ==
    \E s \in Sessions :
      /\ sub[s].mode = "speaking"
      /\ sub[s].state = "Completed"
      /\ Len(sub[s].before) >= 1
      /\ Len(history[s]) = Len(sub[s].before) + 1

\* C6 as stated: a reply whose content is a JSON object without "score"
\* makes evaluate_with_groq return a failure, the submission never completes
\* and the history stays as it was.
C6_NoScoreIsFailure ==
    \A s \in Sessions :
      NoScoreReply(sub[s].reply) =>
        /\ pc[s] \in AfterEvaluate => ~eres[s].success
        /\ sub[s].state \in {"Evaluating", "Failed"}
        /\ history[s] = sub[s].before

\* C6: a reply whose content is a JSON object without "score" makes
\* evaluate_with_groq return success with that object unchanged; the
\* submission does not fail, and when it is Completed exactly one entry was
\* appended, holding the object and the score "N/A".
C6_NoScoreIsRecordedAsNA ==
    \A s \in Sessions :
      NoScoreReply(sub[s].reply) =>
        /\ pc[s] \in AfterEvaluate =>
             eres[s] = Success("evaluation", ReplyObjectOf(sub[s].reply))
        /\ sub[s].state \in {"Evaluating", "Completed"}
        /\ sub[s].state = "Completed" =>
             /\ Len(history[s]) = Len(sub[s].before) + 1
             /\ IsPrefix(sub[s].before, history[s])
             /\ Last(history[s]).score = NA
             /\ Last(history[s]).evaluation = ReplyObjectOf(sub[s].reply)

C6_Witness ==
    \E s \in Sessions :
      /\ NoScoreReply(sub[s].reply)
      /\ sub[s].state = "Completed"
      /\ Last(history[s]).score = NA

\* C7 as stated: a malformed 200 reply makes evaluate_with_groq return the
\* failure "Error parsing API response" and no other, the submission ends in
\* Failed with that error, and the history stays as it was.
C7_MalformedReplyIsParseFailure ==
    \A s \in Sessions :
      MalformedReply(sub[s].reply) =>
        /\ pc[s] \in AfterEvaluate =>
             eres[s] = Failure("Error parsing API response")
        /\ sub[s].state \in {"Evaluating", "Failed"}
        /\ sub[s].state = "Failed" =>
             sub[s].error = "Error parsing API response"
        /\ history[s] = sub[s].before

\* C8 as stated: with GROQ_API_KEY absent from the environment and no value
\* from config.py, no session ever calls transcribe_audio or posts to the
\* judging provider, and every history stays empty.
NoCredential == envKey = Unset /\ configKey \in {NoModule, NoAttr, ""}

C8_NoCredentialRefusesAll ==
    NoCredential =>
      \A s \in Sessions :
        /\ sub[s].transcribes = 0
        /\ sub[s].posts = 0
        /\ history[s] = <<>>

\* C9 as stated: once transcribe_audio has returned from its inner try, on
\* whatever path, the file at its filepath does not exist, also when
\* os.remove failed.
C9_FileGoneOnEveryPath ==
    \A s \in Sessions :
      (pc[s] \in AfterTranscribe /\ cleanup[s] # "none") =>
        files[filepath[s]] = NoFile

\* C9: once transcribe_audio has returned from its inner try, the file at
\* its filepath does not exist on every path on which os.remove did not
\* fail; when os.remove failed the failure is swallowed, the result is
\* returned all the same and the file is left behind.
C9_FileGoneUnlessRemoveFails ==
    \A s \in Sessions :
      pc[s] \in AfterTranscribe =>
        /\ cleanup[s] \in {"removed", "absent"} => files[filepath[s]] = NoFile
        /\ cleanup[s] = "failed" =>
             /\ files[filepath[s]] # NoFile
             /\ IsResult(tres[s])

C9_Witness ==
    \E s \in Sessions :
      /\ pc[s] = "transcribed"
      /\ cleanup[s] = "removed"
      /\ tres[s] = Failure("Could not request results")
      /\ files[filepath[s]] = NoFile

\* A result dict: success with exactly the payload, or failure with exactly
\* an error.
WellFormed(r, payload) ==
    /\ IsResult(r)
    /\ IF r.success THEN DOMAIN r = {"success", payload}
       ELSE DOMAIN r = {"success", "error"}

\* C10: whatever the file system and the providers do, what transcribe_audio
\* and evaluate_with_groq hand back is a result dict, success with its
\* payload or failure with its error, never an exception.
C10_AdaptersReturnResults ==
    \A s \in Sessions :
      /\ pc[s] \in AfterTranscribe => WellFormed(tres[s], "text")
      /\ pc[s] \in AfterEvaluate => WellFormed(eres[s], "evaluation")
      /\ sub[s].transcription # NoResult =>
           WellFormed(sub[s].transcription, "text")

C10_Witness ==
    \E s \in Sessions :
      /\ pc[s] = "evaluated"
      /\ eres[s] = Failure("Error processing request")
      /\ "body" \in DOMAIN sub[s].reply
      /\ sub[s].reply.body = "empty_choices"

\* C11 as stated: whatever reading_texts.json holds, the reference text of
\* a reading submission is a non-empty text: evaluate_with_groq is never
\* called in the reading test with an absent or empty reference_text.
C11_ReferenceTextNonEmpty ==
    \A s \in Sessions :
      (sub[s].mode = "reading" /\ pc[s] \in AfterEvaluate) =>
        Truthy(reference_text[s])

\* C12 as stated: every submission that was taken up ends in Completed or
\* in Failed, whatever the providers do, a provider that never answers
\* included.
C12_EverySubmissionEnds ==
    \A s \in Sessions :
      (sub[s].state = "Transcribing") ~> (sub[s].state \in {"Completed", "Failed"})

ModeOfLabel(label) == IF label = "Speaking Test" THEN "speaking" ELSE "reading"

\* C13 as stated: the report returned by a successful evaluation, and the
\* report of every history entry, has every dimension of its mode and the
\* tips list.
C13_ReportHasEveryDimension ==
    \A s \in Sessions :
      /\ (pc[s] \in AfterEvaluate /\ eres[s].success) =>
           ReportKeys(stage[s]) \ {"score"} \subseteq
             DOMAIN eres[s].evaluation.members
      /\ \A i \in 1..Len(history[s]) :
           ReportKeys(ModeOfLabel(history[s][i].type)) \ {"score"} \subseteq
             DOMAIN history[s][i].evaluation.members

\* C13: a successful evaluation returns, and the entry stores, the JSON
\* object of the reply unchanged, so a field the provider omitted is absent
\* from the report; when the report is shown, each feedback item of the
\* layout (the speaking one if the object has "grammar", else the reading
\* one) and the score are rendered from the object, "N/A" standing for a
\* missing one, and missing tips are rendered as no tips.
C13_ReportStoredAsRepliedShownWithNA ==
    \A s \in Sessions :
      IsObjectReply(sub[s].reply) =>
        LET m == ReplyObjectOf(sub[s].reply).members
            dims == IF "grammar" \in DOMAIN m THEN SpeakingDimensions
                    ELSE ReadingDimensions
        IN  /\ pc[s] \in AfterEvaluate =>
                 /\ eres[s].success
                 /\ eres[s].evaluation.members = m
            /\ sub[s].state = "Completed" =>
                 /\ Last(history[s]).evaluation.members = m
                 /\ shown[s].kind = "results"
                 /\ DOMAIN shown[s].rendered.feedback = dims
                 /\ \A k \in dims :
                      shown[s].rendered.feedback[k] =
                        IF k \in DOMAIN m THEN m[k] ELSE NA
                 /\ shown[s].rendered.score =
                      IF "score" \in DOMAIN m THEN m.score ELSE NA
                 /\ shown[s].rendered.tips =
                      IF "improvement_tips" \in DOMAIN m
                      THEN m.improvement_tips ELSE <<>>

C13_Witness ==
    \E s \in Sessions :
      /\ sub[s].state = "Completed"
      /\ sub[s].mode = "reading"
      /\ "overall" \notin DOMAIN Last(history[s]).evaluation.members
      /\ shown[s].rendered.feedback["overall"] = NA
      /\ shown[s].rendered.feedback["accuracy"] = "feedback on accuracy"
      /\ shown[s].rendered.tips = <<>>

\* C14: a submission that Failed (in transcription or in evaluation) leaves
\* the run and the session as a submission that was never made would: the
\* run goes on to the reading test or ends without st.stop(), the history is
\* the one from before, the locals are gone and the recorder still holds the
\* clip, so that the next test of the run and the next run take up a clip as
\* usual; and a submission that follows a failed one and is Completed has
\* appended its entry.
C14_FailureLeavesSessionUsable ==
    \A s \in Sessions :
      /\ sub[s].state = "Failed" =>
           /\ \/ pc[s] = "test" /\ stage[s] = "reading" /\ sub[s].mode = "speaking"
              \/ pc[s] = "idle" /\ stage[s] = "speaking"
           /\ stopped[s] = ""
           /\ history[s] = sub[s].before
           /\ recorder[s][RecorderOf(sub[s].mode)] = sub[s].clip
           /\ audio[s] = NoneVal
           /\ tres[s] = NoResult
           /\ eres[s] = NoResult
      /\ (sub[s].earlier = "Failed" /\ sub[s].state = "Completed") =>
           /\ Len(history[s]) = Len(sub[s].before) + 1
           /\ Last(history[s]).transcript = sub[s].transcription.text

C14_Witness ==
    \E s \in Sessions :
      /\ sub[s].earlier = "Failed"
      /\ sub[s].mode = "reading"
      /\ sub[s].state = "Completed"
      /\ sub[s].clip = recorder[s].speaking_recorder
      /\ Len(history[s]) = Len(sub[s].before) + 1

\* The moves of a submission's state: forward only.
Forward ==
    {<<"Transcribing", "Evaluating">>, <<"Transcribing", "Failed">>,
     <<"Transcribing", "Crashed">>, <<"Evaluating", "Completed">>,
     <<"Evaluating", "Failed">>, <<"Evaluating", "Crashed">>}

\* The step makes sub[s] the record of another submission, or of none.
Begins(s) ==
    /\ sub'[s] # sub[s]
    /\ sub'[s].state \in {"Idle", "Transcribing"}
    /\ sub'[s].recognitions = 0
    /\ sub'[s].posts = 0

\* C15: within one submission transcribe_audio, the recognition provider,
\* evaluate_with_groq and the judging provider are each called at most once
\* and never again after a later stage began; the state of a submission only
\* moves forward; and once it is Completed or Failed nothing more is called
\* or appended for it: the next step that touches the session's record or
\* history starts another submission.
C15_NoRetryForwardOnly ==
    [][\A s \in Sessions :
         /\ sub'[s].transcribes <= 1
         /\ sub'[s].recognitions <= 1
         /\ sub'[s].evaluations <= 1
         /\ sub'[s].posts <= 1
         /\ ~Begins(s) =>
              /\ sub'[s].state # sub[s].state =>
                   <<sub[s].state, sub'[s].state>> \in Forward
              /\ sub[s].state # "Transcribing" =>
                   sub'[s].recognitions = sub[s].recognitions
              /\ sub[s].state \in {"Completed", "Failed"} =>
                   /\ sub'[s] = sub[s]
                   /\ history'[s] = history[s]
         /\ (Begins(s) /\ sub[s].state \in {"Completed", "Failed"}) =>
              history'[s] = history[s]]_vars

C15_Witness ==
    \E s \in Sessions :
      /\ sub[s].state = "Failed"
      /\ sub[s].error = "Network error"
      /\ sub[s].recognitions = 1
      /\ sub[s].posts = 1

InFlight == {"Transcribing", "Evaluating"}
\* The positions of a run inside the pipeline of a submission.
InPipeline ==
    {"t_setup", "t_write", "t_recognize", "blocked", "t_cleanup", "transcribed",
     "evaluated", "saved"}

\* C16: a session has a submission in Transcribing or Evaluating exactly
\* while its run is inside the pipeline, and it is the submission of the
\* test the run is in, so never two at once; when a submission begins, the
\* entries of all submissions of the session completed before it are in the
\* history already, and nothing is appended while it is in flight but its
\* own entry; in particular the reading submission of a run whose speaking
\* submission completed begins with the speaking entry last in the history.
C16_SubmissionsSerialized ==
    \A s \in Sessions :
      /\ pc[s] \in InPipeline <=> sub[s].state \in InFlight
      /\ sub[s].state \in InFlight =>
           /\ sub[s].mode = stage[s]
           /\ Len(sub[s].before) = Len(completed[s])
           /\ IF pc[s] = "saved" /\ eres[s].success
              THEN /\ Len(history[s]) = Len(sub[s].before) + 1
                   /\ IsPrefix(sub[s].before, history[s])
              ELSE history[s] = sub[s].before
      /\ (sub[s].mode = "reading" /\ sub[s].earlier = "Completed") =>
           /\ Len(sub[s].before) >= 1
           /\ Last(sub[s].before).type = "Speaking Test"
           /\ Last(sub[s].before).transcript = Speech[recorder[s].speaking_recorder]

C16_Witness ==
    \E s \in Sessions :
      /\ pc[s] = "t_write"
      /\ sub[s].mode = "reading"
      /\ sub[s].state = "Transcribing"
      /\ sub[s].earlier = "Completed"
      /\ Last(history[s]).type = "Speaking Test"

\* C17: with two sessions running at once, a step changes the history of a
\* session only when it is that session's own save, which appends to it; the
\* same step leaves every other session's history, position and submission
\* as they were.
C17_SessionsIsolated ==
    [][\A s \in Sessions :
         history'[s] # history[s] =>
           /\ pc[s] = "evaluated"
           /\ pc'[s] = "saved"
           /\ IsPrefix(history[s], history'[s])
           /\ Len(history'[s]) = Len(history[s]) + 1
           /\ \A t \in Sessions \ {s} :
                /\ history'[t] = history[t]
                /\ pc'[t] = pc[t]
                /\ sub'[t] = sub[t]]_vars

C17_Witness ==
    /\ live = Sessions
    /\ pc["s1"] = "saved"
    /\ pc["s2"] \in InPipeline
    /\ Len(history["s1"]) >= 1
    /\ Len(history["s2"]) >= 1

\* C18: a test whose recorder yields no audio bytes (None, or an empty
\* buffer) passes on without a submission: transcribe_audio is not called,
\* so no file is written and neither provider is asked, and the history stays
\* as it is; every submission there is has the non-empty clip of the recorder
\* of its test.
C18_EmptyClipNotProcessed ==
    [][\A s \in Sessions :
         /\ (/\ pc[s] = "test"
             /\ ~Truthy(recorder[s][RecorderOf(stage[s])])
             /\ <<pc'[s], stage'[s]>> # <<pc[s], stage[s]>>) =>
              /\ pc'[s] \in {"test", "idle"}
              /\ stage'[s] # stage[s]
              /\ sub'[s] = sub[s]
              /\ history'[s] = history[s]
              /\ files' = files
              /\ tempDir' = tempDir
         /\ sub'[s].transcribes > 0 =>
              /\ Truthy(sub'[s].clip)
              /\ sub'[s].clip = recorder'[s][RecorderOf(sub'[s].mode)]]_vars

C18_Witness ==
    \E s \in Sessions :
      /\ pc[s] = "test"
      /\ stage[s] = "reading"
      /\ recorder[s].speaking_recorder = NoneVal
      /\ Truthy(recorder[s].reading_recorder)
      /\ sub[s] = NoSubmission
      /\ Len(history[s]) = 1

\* The positions of transcribe_audio at which filepath is set.
InTranscribe == {"t_write", "t_recognize", "blocked", "t_cleanup"}

\* C19 as stated: two sessions that are inside transcribe_audio at the same
\* time have different file paths, and a transcription that succeeds has
\* recognized the clip it was given.
C19_TranscriptionsUseDistinctFiles ==
    /\ \A s, t \in Sessions :
         (s # t /\ pc[s] \in InTranscribe /\ pc[t] \in InTranscribe) =>
           filepath[s] # filepath[t]
    /\ \A s \in Sessions :
         (pc[s] = "transcribed" /\ IsResult(tres[s]) /\ tres[s].success) =>
           tres[s].text = Speech[audio[s]]

\* The entries of a test in a history.
EntriesOf(h, label) == {i \in 1..Len(h) : h[i].type = label}

\* C20 as stated, for sessions whose user records at most once in each
\* recorder: the one clip of a recorder is transcribed and evaluated once,
\* however many runs find it in the recorder, so the history has at most one
\* entry of each test.
C20_ClipEvaluatedOnce ==
    \A s \in Sessions :
      \A label \in {"Speaking Test", "Reading Test"} :
        Cardinality(EntriesOf(history[s], label)) <= 1

====
